---- MODULE Spec2Model ----
(***************************************************************************)
(* Model of the three procedural generators of helloworld.js:              *)
(*   - the boids flocking simulator   (src/algorithms/flocking.js),        *)
(*   - the L-system engine and turtle (src/algorithms/lsystem.js),         *)
(*   - the building shape grammar     (src/algorithms/buildingGrammar.js). *)
(* Real numbers are fixed-point integers: a quantity q is held as q*Unit.  *)
(* Angles are whole degrees and sines come from a table scaled by Unit.    *)
(***************************************************************************)
EXTENDS Integers, Sequences, FiniteSets, TLC

VARIABLES
    \* ---- flocking simulator ----
    boids,          \* FlockingSystem.boids: array of Boid objects (by identity)
    config,         \* FlockingSystem.config
    position,       \* Boid.position, per Boid object
    velocity,       \* Boid.velocity, per Boid object
    acceleration,   \* Boid.acceleration, per Boid object
    ticks,          \* calls of Boid.update on each object in the latest update(dt)
    passes,         \* the loop passes of the latest update(dt): what each one read
                    \* and the forces it computed (history)
    lastOp,         \* the FlockingSystem method that ran last
    calls,          \* number of FlockingSystem method calls so far
    \* ---- L-system ----
    axiom,          \* LSystem.axiom
    rules,          \* LSystem.rules: symbol -> replacement string
    iterations,     \* LSystem.iterations
    currentString,  \* LSystem.currentString
    returns,        \* what the calls of iterate() and getString() returned, in order
    \* ---- turtle interpreter: one call of parseLSystemString ----
    lstring,        \* argument lstring
    angle,          \* argument angle, in degrees
    stepSize,       \* argument stepSize
    turtle,         \* the locals i, x, y, z, currentAngle, stack, commands
    trail,          \* trail[k]: the pose before symbol k was processed (history)
    parsed,         \* whether the call has returned, and the command list it returned
    \* ---- building shape grammar ----
    bconfig,        \* the config object given to the BuildingGrammar constructor
    grammar,        \* the fields of the BuildingGrammar instance
    building,       \* generate(): the local `building`
    level,          \* generate(): the loop variable `level`
    bpc,            \* "idle" between calls of generate(), "loop" inside one
    generated,      \* the buildings the calls of generate() returned, in order
    fresh,          \* no generate() has returned on the instance in use yet
    madeBy,         \* for each returned building: was it the first of its instance
    \* ---- BuildingGrammar.getDirection called on its own ----
    dirFrom,        \* the argument `from`
    dirTo,          \* the argument `to`
    dirResult,      \* the value returned, "none" before the call
    \* ---- the handle returned by createPlant or createBuilding ----
    handleKind,     \* "plant" or "building": which function made the handle
    closure,        \* the destructured creation config the handle closes over
    groupPosition,  \* group.position
    materialColor,  \* the colour of each material, by material name
    returned,       \* what the latest updateConfig returned, "none" before
    lastCall,       \* the newConfig of the latest call and what it found (history)
    updates,        \* calls of updateConfig so far
    \* ---- PlayerView: the flocking effects and the frame loop ----
    mounted,        \* the component is mounted
    hasScene,       \* sceneRef.current is set
    flockingConfig, \* the prop: 0 for null, otherwise a config object
    flockingSystemRef, \* flockingSystemRef.current: 0 for null, otherwise a system
    systems,        \* every system createFlockingMotes returned, with what was called on it
    hasCleanup,     \* the latest run of the first effect returned its cleanup function
    pvpc,           \* position in a commit: "cleanup", "dispose", "create", "sync", or "idle"
    rerenders,      \* changes of flockingConfig so far
    frames,         \* runs of animate so far
    \* ---- createFlowers: the placement loop ----
    flowerCount,    \* the constant `count`
    noiseConfig,    \* whether config.noiseConfig is given
    flowers,        \* the list `flowers`, one entry per flowerGroup pushed
    attempts,       \* the counter `attempts`
    flowerPc        \* "loop" inside the while loop, "returned" after the return

flockVars == <<boids, config, position, velocity, acceleration, ticks, passes, lastOp, calls>>

lsysVars == <<axiom, rules, iterations, currentString, returns>>

turtleVars == <<lstring, angle, stepSize, turtle, trail, parsed>>

buildVars == <<bconfig, grammar, building, level, bpc, generated, fresh, madeBy>>

directionVars == <<dirFrom, dirTo, dirResult>>

handleVars == <<handleKind, closure, groupPosition, materialColor, returned, lastCall, updates>>

viewVars == <<mounted, hasScene, flockingConfig, flockingSystemRef, systems, hasCleanup,
              pvpc, rerenders, frames>>

flowerVars == <<flowerCount, noiseConfig, flowers, attempts, flowerPc>>

vars == <<flockVars, lsysVars, turtleVars, buildVars, directionVars, handleVars, viewVars,
          flowerVars>>

\* what the methods of one component leave alone: the other components
otherThanFlock ==
    <<lsysVars, turtleVars, buildVars, directionVars, handleVars, viewVars, flowerVars>>
otherThanLSys ==
    <<flockVars, turtleVars, buildVars, directionVars, handleVars, viewVars, flowerVars>>
otherThanTurtle ==
    <<flockVars, lsysVars, buildVars, directionVars, handleVars, viewVars, flowerVars>>
otherThanBuilding ==
    <<flockVars, lsysVars, turtleVars, directionVars, handleVars, viewVars, flowerVars>>
otherThanDirection ==
    <<flockVars, lsysVars, turtleVars, buildVars, handleVars, viewVars, flowerVars>>
otherThanView ==
    <<flockVars, lsysVars, turtleVars, buildVars, directionVars, handleVars, flowerVars>>
otherThanFlowers ==
    <<flockVars, lsysVars, turtleVars, buildVars, directionVars, handleVars, viewVars>>
otherThanHandle ==
    <<flockVars, lsysVars, turtleVars, buildVars, directionVars, viewVars, flowerVars>>

-----------------------------------------------------------------------------
(* Bounds of the model *)

Unit == 100         \* fixed-point resolution: 1.0 is held as Unit
MaxFlock == 3       \* longest boids array
MaxCalls == 4       \* FlockingSystem method calls per behaviour
MaxIterations == 2  \* largest LSystem.iterations
MaxReturns == 3     \* calls of iterate() and getString() per behaviour
MaxString == 3      \* every lstring up to this length is interpreted
MaxLevels == 3      \* largest config.levels
MaxRooms == 9       \* largest config.roomsPerLevel
MaxGenerates == 2   \* calls of generate() per behaviour
MaxCoord == 2       \* largest |x| and |z| handed to getDirection on its own
MaxUpdates == 2     \* calls of a handle's updateConfig per behaviour
MaxRerenders == 3   \* changes of PlayerView's flockingConfig per behaviour
MaxFrames == 3      \* animation frames per behaviour
MaxCount == 3       \* largest `count` handed to createFlowers

-----------------------------------------------------------------------------
(* Fixed-point arithmetic and THREE.Vector3 *)

\* integer division rounding toward zero
Div(a, b) == IF a >= 0 THEN a \div b ELSE -((-a) \div b)

\* the fixed-point value of the decimal n/d
Dec(n, d) == Div(n * Unit, d)

RECURSIVE SqrtSearch(_, _, _)
SqrtSearch(n, lo, hi) ==
    IF lo >= hi THEN lo
    ELSE LET mid == (lo + hi + 1) \div 2
         IN  IF mid * mid <= n THEN SqrtSearch(n, mid, hi)
                               ELSE SqrtSearch(n, lo, mid - 1)

\* floor of the square root
Isqrt(n) == SqrtSearch(n, 0, IF n < 46340 THEN n ELSE 46340)

Vec(a, b, c) == [x |-> a, y |-> b, z |-> c]
Zero3 == Vec(0, 0, 0)

add(u, v) == Vec(u.x + v.x, u.y + v.y, u.z + v.z)
sub(u, v) == Vec(u.x - v.x, u.y - v.y, u.z - v.z)
LengthSq(v) == v.x * v.x + v.y * v.y + v.z * v.z
length(v) == Isqrt(LengthSq(v))

\* v.multiplyScalar(s), s a fixed-point scalar
multiplyScalar(v, s) == Vec(Div(v.x * s, Unit), Div(v.y * s, Unit), Div(v.z * s, Unit))

\* v.divideScalar(s), s a fixed-point scalar
divideScalar(v, s) == Vec(Div(v.x * Unit, s), Div(v.y * Unit, s), Div(v.z * Unit, s))

\* v.divideScalar(n), n a plain count
divideCount(v, n) == Vec(Div(v.x, n), Div(v.y, n), Div(v.z, n))

\* v.normalize() == v.divideScalar(v.length() || 1)
normalize(v) == LET l == length(v) IN IF l = 0 THEN v ELSE divideScalar(v, l)

Min(a, b) == IF a < b THEN a ELSE b
Max(a, b) == IF a > b THEN a ELSE b

\* v.clampLength(lo, hi) == v.divideScalar(len || 1).multiplyScalar(max(lo, min(hi, len)))
clampLength(v, lo, hi) ==
    LET l == length(v)
        c == Max(lo, Min(hi, l))
    IN  IF l = 0 THEN multiplyScalar(v, c)
        ELSE Vec(Div(v.x * c, l), Div(v.y * c, l), Div(v.z * c, l))

\* squared distance of two positions; distanceTo is its square root
DistSq(p, q) == LengthSq(sub(p, q))
distanceTo(p, q) == Isqrt(DistSq(p, q))

-----------------------------------------------------------------------------
(* Flocking simulator: Boid and FlockingSystem *)

\* the Boid objects the caller has constructed
BoidIds == {1, 2}

\* the speed limit written into Boid.update
BoidMaxSpeed == 5

\* the margin written into FlockingSystem.boundaries
Margin == 5

\* FlockingSystem constructor: every key of the argument, defaults for the rest
DefaultConfig ==
    [ separation       |-> Dec(3, 2),
      alignment        |-> Unit,
      cohesion         |-> Unit,
      separationRadius |-> 2 * Unit,
      neighborRadius   |-> 5 * Unit,
      maxSpeed         |-> 5 * Unit,
      maxForce         |-> Dec(1, 10),
      bounds           |-> [width |-> 50 * Unit, height |-> 50 * Unit, depth |-> 50 * Unit],
      center           |-> Vec(0, 50 * Unit, 0),
      planeHeight      |-> 50 * Unit ]

\* { ...cfg, ...partial }
Merge(cfg, partial) ==
    [k \in DOMAIN cfg \cup DOMAIN partial |->
        IF k \in DOMAIN partial THEN partial[k] ELSE cfg[k]]

\* the partial configurations handed to the constructor and to updateConfig
ConfigInputs ==
    { [maxSpeed |-> 2 * Unit],
      [maxSpeed |-> 8 * Unit, maxForce |-> Unit],
      [maxForce |-> 0] }

\* the positions and velocities Boid objects are constructed with
StartScenes ==
    { \* two neighbours inside the separation radius, one of them too fast
      [ position |-> <<Vec(0, 50 * Unit, 0), Vec(Unit, 50 * Unit, 0)>>,
        velocity |-> <<Vec(3 * Unit, 0, 0), Vec(0, 0, -6 * Unit)>> ],
      \* two agents out of each other's reach, both past a boundary threshold
      [ position |-> <<Vec(24 * Unit, 50 * Unit, 0), Vec(21 * Unit, 56 * Unit, 0)>>,
        velocity |-> <<Zero3, Vec(3 * Unit, 0, 0)>> ],
      \* two agents at the same place
      [ position |-> <<Vec(0, 50 * Unit, 0), Vec(0, 50 * Unit, 0)>>,
        velocity |-> <<Vec(0, Unit, 0), Vec(4 * Unit, 0, 3 * Unit)>> ],
      \* one agent below the low threshold of every axis, one above the high
      \* threshold of z only
      [ position |-> <<Vec(-24 * Unit, 42 * Unit, -23 * Unit), Vec(0, 50 * Unit, 24 * Unit)>>,
        velocity |-> <<Vec(0, 0, -Unit), Vec(Unit, 0, 0)>> ] }

\* the time steps handed to update
DeltaTimes == { Dec(1, 2), Unit }

\* the Boid objects of the array, in array order, duplicates kept
Others(b) == SelectSeq(boids, LAMBDA o : o # b)

RECURSIVE SumSeparation(_, _, _, _)
\* lines 67-80: accumulated steer and neighbour count over others[k..]
SumSeparation(st, b, others, k) ==
    IF k > Len(others) THEN [steer |-> Zero3, count |-> 0]
    ELSE LET o    == others[k]
             dsq  == DistSq(st.position[b], st.position[o])
             rest == SumSeparation(st, b, others, k + 1)
             r    == config.separationRadius
         IN  IF dsq > 0 /\ dsq < r * r
             THEN LET diff == divideScalar(normalize(sub(st.position[b], st.position[o])),
                                           distanceTo(st.position[b], st.position[o]))
                  IN  [steer |-> add(diff, rest.steer), count |-> rest.count + 1]
             ELSE rest

separate(st, b) ==
    LET acc == SumSeparation(st, b, Others(b), 1)
    IN  IF acc.count > 0
        THEN clampLength(
                 sub(multiplyScalar(normalize(divideCount(acc.steer, acc.count)),
                                    config.maxSpeed),
                     st.velocity[b]),
                 0, config.maxForce)
        ELSE acc.steer

RECURSIVE SumNeighborsWithCoincident(_, _, _, _, _)
\* a faulty neighbour sum without the distance > 0 test
SumNeighborsWithCoincident(st, b, others, k, f) ==
    IF k > Len(others) THEN [sum |-> Zero3, count |-> 0]
    ELSE LET o    == others[k]
             dsq  == DistSq(st.position[b], st.position[o])
             rest == SumNeighborsWithCoincident(st, b, others, k + 1, f)
             r    == config.neighborRadius
         IN  IF dsq < r * r
             THEN [sum |-> add(st[f][o], rest.sum), count |-> rest.count + 1]
             ELSE rest

RECURSIVE SumNeighbors(_, _, _, _, _)
\* lines 98-107 and 126-135: sum of field f over the neighbours, and their count
SumNeighbors(st, b, others, k, f) ==
    IF k > Len(others) THEN [sum |-> Zero3, count |-> 0]
    ELSE LET o    == others[k]
             dsq  == DistSq(st.position[b], st.position[o])
             rest == SumNeighbors(st, b, others, k + 1, f)
             r    == config.neighborRadius
         IN  IF dsq > 0 /\ dsq < r * r
             THEN [sum |-> add(st[f][o], rest.sum), count |-> rest.count + 1]
             ELSE rest

\* align without the count test: an agent with no neighbour steers towards rest
alignWithoutCountTest(st, b) ==
    LET acc == SumNeighbors(st, b, Others(b), 1, "velocity")
    IN  clampLength(
            sub(IF acc.count > 0
                THEN multiplyScalar(normalize(divideCount(acc.sum, acc.count)),
                                    config.maxSpeed)
                ELSE Zero3,
                st.velocity[b]),
            0, config.maxForce)

align(st, b) ==
    LET acc == SumNeighbors(st, b, Others(b), 1, "velocity")
    IN  IF acc.count > 0
        THEN clampLength(
                 sub(multiplyScalar(normalize(divideCount(acc.sum, acc.count)),
                                    config.maxSpeed),
                     st.velocity[b]),
                 0, config.maxForce)
        ELSE Zero3

cohesion(st, b) ==
    LET acc == SumNeighbors(st, b, Others(b), 1, "position")
    IN  IF acc.count > 0
        THEN LET desired == multiplyScalar(
                                normalize(sub(divideCount(acc.sum, acc.count),
                                              st.position[b])),
                                config.maxSpeed)
             IN  clampLength(sub(desired, st.velocity[b]), 0, config.maxForce)
        ELSE Zero3

\* a faulty push-back that starts at the extents, without the margin
BoundarySteerAtExtents(p) ==
    LET c  == config.center
        bw == Div(config.bounds.width, 2)
        bd == Div(config.bounds.depth, 2)
        ph == config.planeHeight
    IN  Vec(IF p.x < c.x - bw THEN Unit ELSE IF p.x > c.x + bw THEN -Unit ELSE 0,
            IF p.y < ph THEN Unit ELSE IF p.y > ph THEN -Unit ELSE 0,
            IF p.z < c.z - bd THEN Unit ELSE IF p.z > c.z + bd THEN -Unit ELSE 0)

\* the per-axis push-back direction before normalisation (lines 157-174)
BoundarySteer(p) ==
    LET m  == Margin * Unit
        c  == config.center
        bw == Div(config.bounds.width, 2)
        bd == Div(config.bounds.depth, 2)
        ph == config.planeHeight
    IN  Vec(IF p.x < c.x - bw + m THEN Unit ELSE IF p.x > c.x + bw - m THEN -Unit ELSE 0,
            IF p.y < ph - m THEN Unit ELSE IF p.y > ph + m THEN -Unit ELSE 0,
            IF p.z < c.z - bd + m THEN Unit ELSE IF p.z > c.z + bd - m THEN -Unit ELSE 0)

boundaries(st, b) ==
    LET steer == BoundarySteer(st.position[b])
    IN  IF LengthSq(steer) > 0
        THEN clampLength(
                 sub(multiplyScalar(normalize(steer), config.maxSpeed), st.velocity[b]),
                 0, config.maxForce)
        ELSE steer

\* Boid.applyForce, for the four forces of one loop pass
applyForce(acc, force) == add(acc, force)

\* the speed limit Boid.update enforces
SpeedLimit == BoidMaxSpeed * Unit

\* a faulty Boid.update without the reset of the acceleration
Boid_updateKeepsAcceleration(st, b, acc, dt) ==
    LET v1 == add(st.velocity[b], multiplyScalar(acc, dt))
        v2 == IF LengthSq(v1) > SpeedLimit * SpeedLimit
              THEN multiplyScalar(normalize(v1), SpeedLimit)
              ELSE v1
    IN  [st EXCEPT !.position[b]     = add(@, multiplyScalar(v2, dt)),
                   !.velocity[b]     = v2,
                   !.acceleration[b] = acc,
                   !.ticks[b]        = @ + 1]

\* Boid.update(deltaTime) on object b
Boid_update(st, b, acc, dt) ==
    LET v1 == add(st.velocity[b], multiplyScalar(acc, dt))
        v2 == IF LengthSq(v1) > SpeedLimit * SpeedLimit
              THEN multiplyScalar(normalize(v1), SpeedLimit)
              ELSE v1
    IN  [st EXCEPT !.position[b]     = add(@, multiplyScalar(v2, dt)),
                   !.velocity[b]     = v2,
                   !.acceleration[b] = multiplyScalar(acc, 0),
                   !.ticks[b]        = @ + 1]

\* one pass of the loop of FlockingSystem.update (lines 188-201)
StepBoid(st, b, dt) ==
    LET sep == multiplyScalar(separate(st, b), config.separation)
        ali == multiplyScalar(align(st, b), config.alignment)
        coh == multiplyScalar(cohesion(st, b), config.cohesion)
        bnd == multiplyScalar(boundaries(st, b), Unit)
        acc == applyForce(applyForce(applyForce(applyForce(
                   st.acceleration[b], sep), ali), coh), bnd)
    IN  [Boid_update(st, b, acc, dt) EXCEPT
            !.passes = Append(@, [boid |-> b, dt |-> dt,
                                  position |-> st.position, velocity |-> st.velocity,
                                  sep |-> sep, ali |-> ali, coh |-> coh, bnd |-> bnd,
                                  acc |-> acc])]

\* a faulty loop pass that reads the forces from the state before the step
StepBoidFrom(pre, st, b, dt) ==
    LET sep == multiplyScalar(separate(pre, b), config.separation)
        ali == multiplyScalar(align(pre, b), config.alignment)
        coh == multiplyScalar(cohesion(pre, b), config.cohesion)
        bnd == multiplyScalar(boundaries(pre, b), Unit)
        acc == applyForce(applyForce(applyForce(applyForce(
                   st.acceleration[b], sep), ali), coh), bnd)
    IN  [Boid_update(st, b, acc, dt) EXCEPT
            !.passes = Append(@, [boid |-> b, dt |-> dt,
                                  position |-> st.position, velocity |-> st.velocity,
                                  sep |-> sep, ali |-> ali, coh |-> coh, bnd |-> bnd,
                                  acc |-> acc])]

RECURSIVE LoopFrom(_, _, _, _)
LoopFrom(pre, st, k, dt) ==
    IF k > Len(boids) THEN st
    ELSE LoopFrom(pre, StepBoidFrom(pre, st, boids[k], dt), k + 1, dt)

\* a faulty update that computes every force before it integrates any agent
UpdateLoopAllForcesFirst(st, k, dt) == LoopFrom(st, st, k, dt)

RECURSIVE UpdateLoop(_, _, _)
\* for (const boid of this.boids), from index k on
UpdateLoop(st, k, dt) ==
    IF k > Len(boids) THEN st
    ELSE UpdateLoop(StepBoid(st, boids[k], dt), k + 1, dt)

\* index of the first occurrence of b in s, 0 when absent (Array.indexOf + 1)
IndexOf(s, b) ==
    IF \E k \in 1..Len(s) : s[k] = b
    THEN CHOOSE k \in 1..Len(s) : s[k] = b /\ \A j \in 1..(k - 1) : s[j] # b
    ELSE 0

\* s.splice(k - 1, 1)
Splice(s, k) == [j \in 1..(Len(s) - 1) |-> IF j < k THEN s[j] ELSE s[j + 1]]

FlockInit ==
    /\ boids = << >>
    /\ config \in {DefaultConfig} \cup {Merge(DefaultConfig, p) : p \in ConfigInputs}
    /\ \E sc \in StartScenes : position = sc.position /\ velocity = sc.velocity
    /\ acceleration = [b \in BoidIds |-> Zero3]
    /\ ticks = [b \in BoidIds |-> 0]
    /\ passes = << >>
    /\ lastOp = "new"
    /\ calls = 0

addBoid(b) ==
    /\ calls < MaxCalls
    /\ Len(boids) < MaxFlock
    /\ boids' = Append(boids, b)
    /\ lastOp' = "addBoid"
    /\ calls' = calls + 1
    /\ UNCHANGED <<config, position, velocity, acceleration, ticks, passes>>
    /\ UNCHANGED otherThanFlock

removeBoid(b) ==
    /\ calls < MaxCalls
    /\ boids' = IF IndexOf(boids, b) > 0 THEN Splice(boids, IndexOf(boids, b)) ELSE boids
    /\ lastOp' = "removeBoid"
    /\ calls' = calls + 1
    /\ UNCHANGED <<config, position, velocity, acceleration, ticks, passes>>
    /\ UNCHANGED otherThanFlock

update(dt) ==
    /\ calls < MaxCalls
    /\ LET st == UpdateLoop([position |-> position, velocity |-> velocity,
                             acceleration |-> acceleration,
                             ticks |-> [b \in BoidIds |-> 0],
                             passes |-> << >>], 1, dt)
       IN  /\ position' = st.position
           /\ velocity' = st.velocity
           /\ acceleration' = st.acceleration
           /\ ticks' = st.ticks
           /\ passes' = st.passes
    /\ calls' = calls + 1
    /\ lastOp' = "update"
    /\ UNCHANGED <<boids, config>>
    /\ UNCHANGED otherThanFlock

updateConfig(newConfig) ==
    /\ calls < MaxCalls
    /\ config' = Merge(config, newConfig)
    /\ lastOp' = "updateConfig"
    /\ calls' = calls + 1
    /\ UNCHANGED <<boids, position, velocity, acceleration, ticks, passes>>
    /\ UNCHANGED otherThanFlock

FlockNext ==
    \/ \E b \in BoidIds : addBoid(b)
    \/ \E b \in BoidIds : removeBoid(b)
    \/ \E dt \in DeltaTimes : update(dt)
    \/ \E p \in ConfigInputs : updateConfig(p)

-----------------------------------------------------------------------------
(* L-system: class LSystem.  A string is a sequence of one-character symbols. *)

\* defaultPlantRules.F, complexPlantRules.F and treeRules.F
DefaultPlantF == <<"F", "[", "+", "F", "]", "F", "[", "-", "F", "]", "F">>
TreeF == <<"F", "F", "[", "+", "+", "F", "]", "[", "-", "F", "]", "F">>

\* the rule objects handed to the constructor
RuleSets ==
    { [F |-> DefaultPlantF],
      [F |-> TreeF],
      [X |-> <<"F", "X">>, F |-> <<"F", "F">>],
      [X |-> << >>],
      [F |-> <<"X">>, X |-> << >>],
      << >> }

\* the axioms handed to the constructor
Axioms == { <<"F">>, <<"X">>, <<"F", "X">>, <<"X", "+", "F">>, << >> }

\* if (this.rules[char]): the key exists and its string is not empty
HasRule(r, char) == char \in DOMAIN r /\ r[char] # << >>

\* the body of the inner loop: what one symbol adds to newString
Rewrite(r, char) == IF HasRule(r, char) THEN r[char] ELSE <<char>>

RECURSIVE Pass(_, _, _)
\* for (let char of this.currentString), from index k on
Pass(r, str, k) ==
    IF k > Len(str) THEN << >> ELSE Rewrite(r, str[k]) \o Pass(r, str, k + 1)

RECURSIVE Passes(_, _, _)
\* for (let i = 0; i < this.iterations; i++): n passes over str
Passes(r, str, n) == IF n <= 0 THEN str ELSE Passes(r, Pass(r, str, 1), n - 1)

\* a faulty iterate() that carries on from the string of the previous call
IterateStartStale == currentString

\* this.currentString = this.axiom, at the head of iterate()
IterateStart == axiom

LSysIdle ==
    /\ axiom = << >> /\ rules = << >> /\ iterations = 0
    /\ currentString = << >> /\ returns = << >>

LSysInit ==
    /\ axiom \in Axioms
    /\ rules \in RuleSets
    /\ iterations \in 0..MaxIterations
    /\ currentString = axiom
    /\ returns = << >>

iterate ==
    /\ Len(returns) < MaxReturns
    /\ currentString' = Passes(rules, IterateStart, iterations)
    /\ returns' = Append(returns, [op |-> "iterate", value |-> currentString'])
    /\ UNCHANGED <<axiom, rules, iterations>>
    /\ UNCHANGED otherThanLSys

getString ==
    /\ Len(returns) < MaxReturns
    /\ returns' = Append(returns, [op |-> "getString", value |-> currentString])
    /\ UNCHANGED <<axiom, rules, iterations, currentString>>
    /\ UNCHANGED otherThanLSys

LSysNext == iterate \/ getString

-----------------------------------------------------------------------------
(* Turtle interpreter: parseLSystemString(lstring, angle, stepSize) *)

\* sin of 0..90 degrees, in ten-thousandths
SinTable ==
    << 0, 175, 349, 523, 698, 872, 1045, 1219, 1392, 1564,
       1736, 1908, 2079, 2250, 2419, 2588, 2756, 2924, 3090, 3256,
       3420, 3584, 3746, 3907, 4067, 4226, 4384, 4540, 4695, 4848,
       5000, 5150, 5299, 5446, 5592, 5736, 5878, 6018, 6157, 6293,
       6428, 6561, 6691, 6820, 6947, 7071, 7193, 7314, 7431, 7547,
       7660, 7771, 7880, 7986, 8090, 8192, 8290, 8387, 8480, 8572,
       8660, 8746, 8829, 8910, 8988, 9063, 9135, 9205, 9272, 9336,
       9397, 9455, 9511, 9563, 9613, 9659, 9703, 9744, 9781, 9816,
       9848, 9877, 9903, 9925, 9945, 9962, 9976, 9986, 9994, 9998,
       10000 >>

\* Math.sin and Math.cos of a whole number of degrees, as fixed-point values
Sin(d) ==
    LET m == d % 360
        t == IF m <= 90 THEN SinTable[m + 1]
             ELSE IF m <= 180 THEN SinTable[180 - m + 1]
             ELSE IF m <= 270 THEN -SinTable[m - 180 + 1]
             ELSE -SinTable[360 - m + 1]
    IN  Div(t * Unit, 10000)
Cos(d) == Sin(d + 90)

\* Math.PI, in degrees
Pi == 180

\* the symbols the strings are made of: the seven with an effect, the four
\* reserved pitch/roll symbols, and one that has no case in the switch
Drawing == {"F", "G"}
Effective == {"F", "G", "+", "-", "|", "[", "]"}
TurtleAlphabet == Effective \cup {"&", "^", "\\", "/", "X"}

RECURSIVE StringsUpTo(_)
StringsUpTo(n) ==
    IF n = 0 THEN { << >> }
    ELSE LET shorter == StringsUpTo(n - 1)
         IN  shorter \cup {Append(str, c) : str \in {t \in shorter : Len(t) = n - 1},
                                            c \in TurtleAlphabet}

\* longer strings of interest: the branch example and the plant rules
ExampleStrings ==
    { <<"F", "[", "+", "F", "]", "F">>,
      <<"F", "[", "[", "-", "G", "]", "|", "F", "]", "]", "G">>,
      DefaultPlantF, TreeF }

\* the (angle, stepSize) pairs of the calls
TurtleParams == { [angle |-> 25, stepSize |-> Unit], [angle |-> 90, stepSize |-> Dec(1, 2)] }

\* lines 39-45: the locals before the loop
TurtleStart ==
    [i |-> 0, x |-> 0, y |-> 0, z |-> 0, currentAngle |-> 0,
     stack |-> << >>, commands |-> << >>]

\* a faulty case 'F' that emits the line and leaves the position where it was
ForwardNoAdvance(t, step) ==
    LET newX == t.x + Div(Sin(t.currentAngle) * step, Unit)
        newY == t.y + Div(Cos(t.currentAngle) * step, Unit)
        newZ == t.z
    IN  [t EXCEPT !.commands = Append(@, [type |-> "line",
                                          from |-> Vec(t.x, t.y, t.z),
                                          to   |-> Vec(newX, newY, newZ)])]

\* case 'F', case 'G' (lines 51-66)
Forward(t, step) ==
    LET newX == t.x + Div(Sin(t.currentAngle) * step, Unit)
        newY == t.y + Div(Cos(t.currentAngle) * step, Unit)
        newZ == t.z
    IN  [t EXCEPT !.commands = Append(@, [type |-> "line",
                                          from |-> Vec(t.x, t.y, t.z),
                                          to   |-> Vec(newX, newY, newZ)]),
                  !.x = newX, !.y = newY, !.z = newZ]

\* case '+', case '-', case '|' (lines 68-74, 92-94): currentAngle += d
Turn(t, d) == [t EXCEPT !.currentAngle = @ + d]

\* case '[' (lines 96-101)
Push(t) ==
    [t EXCEPT !.stack = Append(@, [x |-> t.x, y |-> t.y, z |-> t.z,
                                   angle |-> t.currentAngle])]

\* a faulty case ']' that restores the position and keeps the heading
PopKeepsHeading(t) ==
    IF Len(t.stack) > 0
    THEN LET state == t.stack[Len(t.stack)]
         IN  [t EXCEPT !.stack = SubSeq(@, 1, Len(@) - 1),
                       !.x = state.x, !.y = state.y, !.z = state.z]
    ELSE t

\* a faulty case ']' that goes back to the origin when nothing was pushed
PopOrHome(t) ==
    IF Len(t.stack) > 0
    THEN LET state == t.stack[Len(t.stack)]
         IN  [t EXCEPT !.stack = SubSeq(@, 1, Len(@) - 1),
                       !.x = state.x, !.y = state.y, !.z = state.z,
                       !.currentAngle = state.angle]
    ELSE [t EXCEPT !.x = 0, !.y = 0, !.z = 0, !.currentAngle = 0]

\* case ']' (lines 103-111)
Pop(t) ==
    IF Len(t.stack) > 0
    THEN LET state == t.stack[Len(t.stack)]
         IN  [t EXCEPT !.stack = SubSeq(@, 1, Len(@) - 1),
                       !.x = state.x, !.y = state.y, !.z = state.z,
                       !.currentAngle = state.angle]
    ELSE t

\* a faulty switch in which the pitch symbols turn the heading
SwitchWithPitch(t, char, ang, step) ==
    CASE char \in Drawing -> Forward(t, step)
      [] char = "+" -> Turn(t, ang)
      [] char = "-" -> Turn(t, -ang)
      [] char = "&" -> Turn(t, ang)
      [] char = "^" -> Turn(t, -ang)
      [] char = "|" -> Turn(t, Pi)
      [] char = "[" -> Push(t)
      [] char = "]" -> Pop(t)
      [] OTHER -> t

\* the switch of the loop body (lines 50-116)
Switch(t, char, ang, step) ==
    CASE char \in Drawing -> Forward(t, step)
      [] char = "+" -> Turn(t, ang)
      [] char = "-" -> Turn(t, -ang)
      [] char \in {"&", "^", "\\", "/"} -> t
      [] char = "|" -> Turn(t, Pi)
      [] char = "[" -> Push(t)
      [] char = "]" -> Pop(t)
      [] OTHER -> t

\* the pose of the locals
Pose(t) == [x |-> t.x, y |-> t.y, z |-> t.z, angle |-> t.currentAngle]

NotReturned == [returned |-> FALSE, commands |-> << >>]

TurtleIdle ==
    /\ lstring = << >> /\ angle = 0 /\ stepSize = 0
    /\ turtle = TurtleStart /\ trail = << >> /\ parsed = NotReturned

TurtleInit ==
    /\ lstring \in StringsUpTo(MaxString) \cup ExampleStrings
    /\ \E p \in TurtleParams : angle = p.angle /\ stepSize = p.stepSize
    /\ turtle = TurtleStart
    /\ trail = <<Pose(TurtleStart)>>
    /\ parsed = NotReturned

\* one pass of the for loop (lines 47-117)
LoopBody ==
    /\ ~parsed.returned
    /\ turtle.i < Len(lstring)
    /\ LET t == Switch(turtle, lstring[turtle.i + 1], angle, stepSize)
       IN  /\ turtle' = [t EXCEPT !.i = @ + 1]
           /\ trail' = Append(trail, Pose(t))
    /\ UNCHANGED <<lstring, angle, stepSize, parsed>>
    /\ UNCHANGED otherThanTurtle

\* return commands (line 119)
Return ==
    /\ ~parsed.returned
    /\ turtle.i >= Len(lstring)
    /\ parsed' = [returned |-> TRUE, commands |-> turtle.commands]
    /\ UNCHANGED <<lstring, angle, stepSize, turtle, trail>>
    /\ UNCHANGED otherThanTurtle

TurtleNext == LoopBody \/ Return

-----------------------------------------------------------------------------
(* Building shape grammar: class BuildingGrammar *)

\* the config objects handed to the constructor; 0 and "" stand for an absent
\* key as well (both are falsy), hasStairs is "true", "false" or "undefined"
BuildingConfigs ==
    [ levels        : 0..MaxLevels,
      roomsPerLevel : 0..MaxRooms,
      roomSize      : {0, 2 * Unit},
      levelHeight   : {0, 2 * Unit},
      wallThickness : {0},
      hasStairs     : {"true", "false", "undefined"},
      roomLayout    : {"", "grid", "linear", "radial", "spiral"} ]

\* constructor (lines 5-13)
Construct(c) ==
    [ levels        |-> IF c.levels = 0 THEN 3 ELSE c.levels,
      roomsPerLevel |-> IF c.roomsPerLevel = 0 THEN 4 ELSE c.roomsPerLevel,
      roomSize      |-> IF c.roomSize = 0 THEN 4 * Unit ELSE c.roomSize,
      levelHeight   |-> IF c.levelHeight = 0 THEN 3 * Unit ELSE c.levelHeight,
      wallThickness |-> IF c.wallThickness = 0 THEN Dec(2, 10) ELSE c.wallThickness,
      hasStairs     |-> c.hasStairs # "false",
      roomLayout    |-> IF c.roomLayout = "" THEN "grid" ELSE c.roomLayout ]

\* Math.ceil(Math.sqrt(n)) and Math.ceil(n / d)
CeilSqrt(n) == LET r == Isqrt(n) IN IF r * r = n THEN r ELSE r + 1
CeilDiv(n, d) == (n + d - 1) \div d

\* the id template `level-${levelIndex}-room-${index}`
RoomId(levelIndex, index) == <<"level", levelIndex, "room", index>>

\* a faulty fallback that wraps after two columns
RoomPositionTwoColumns(i) ==
    LET n       == grammar.roomsPerLevel
        spacing == Div(grammar.roomSize * 11, 10)
    IN  CASE grammar.roomLayout = "grid" ->
               LET cols == CeilSqrt(n)
                   rows == CeilDiv(n, cols)
                   col  == i % cols
                   row  == i \div cols
               IN  [x |-> Div((2 * col - (cols - 1)) * spacing, 2),
                    z |-> Div((2 * row - (rows - 1)) * spacing, 2)]
          [] grammar.roomLayout = "linear" ->
               [x |-> Div((2 * i - (n - 1)) * spacing, 2), z |-> 0]
          [] grammar.roomLayout = "radial" ->
               LET deg    == Div(360 * i, n)
                   radius == Div(spacing * 3, 2)
               IN  [x |-> Div(Cos(deg) * radius, Unit),
                    z |-> Div(Sin(deg) * radius, Unit)]
          [] OTHER ->
               [x |-> ((i % 2) - 1) * spacing, z |-> ((i \div 2) - 1) * spacing]

\* generateRoomPositions (lines 89-142): position of room i, i from 0
RoomPosition(i) ==
    LET n       == grammar.roomsPerLevel
        spacing == Div(grammar.roomSize * 11, 10)
    IN  CASE grammar.roomLayout = "grid" ->
               LET cols == CeilSqrt(n)
                   rows == CeilDiv(n, cols)
                   col  == i % cols
                   row  == i \div cols
               IN  [x |-> Div((2 * col - (cols - 1)) * spacing, 2),
                    z |-> Div((2 * row - (rows - 1)) * spacing, 2)]
          [] grammar.roomLayout = "linear" ->
               [x |-> Div((2 * i - (n - 1)) * spacing, 2), z |-> 0]
          [] grammar.roomLayout = "radial" ->
               LET deg    == Div(360 * i, n)
                   radius == Div(spacing * 3, 2)
               IN  [x |-> Div(Cos(deg) * radius, Unit),
                    z |-> Div(Sin(deg) * radius, Unit)]
          [] OTHER ->
               [x |-> ((i % 3) - 1) * spacing, z |-> ((i \div 3) - 1) * spacing]

generateRoomPositions == [k \in 1..grammar.roomsPerLevel |-> RoomPosition(k - 1)]

Abs(a) == IF a < 0 THEN -a ELSE a

\* a faulty getDirection that compares the signed differences
getDirectionSigned(from, to) ==
    LET dx == to.x - from.x
        dz == to.z - from.z
    IN  IF dx > dz
        THEN (IF dx > 0 THEN "east" ELSE "west")
        ELSE (IF dz > 0 THEN "south" ELSE "north")

\* a faulty getDirection whose tie goes to the x axis
getDirectionTieToX(from, to) ==
    LET dx == to.x - from.x
        dz == to.z - from.z
    IN  IF Abs(dx) >= Abs(dz)
        THEN (IF dx > 0 THEN "east" ELSE "west")
        ELSE (IF dz > 0 THEN "south" ELSE "north")

\* getDirection (lines 145-154)
getDirection(from, to) ==
    LET dx == to.x - from.x
        dz == to.z - from.z
    IN  IF Abs(dx) > Abs(dz)
        THEN (IF dx > 0 THEN "east" ELSE "west")
        ELSE (IF dz > 0 THEN "south" ELSE "north")

\* a faulty distance test with a reach of roomSize * 1.6
NearWithinDiagonal(pos, otherPos) ==
    LET dx == pos.x - otherPos.x
        dz == pos.z - otherPos.z
        t  == Div(grammar.roomSize * 16, 10)
    IN  dx * dx + dz * dz < t * t

\* distance < this.roomSize * 1.2, on the squares (lines 61-66)
Near(pos, otherPos) ==
    LET dx == pos.x - otherPos.x
        dz == pos.z - otherPos.z
        t  == Div(grammar.roomSize * 12, 10)
    IN  dx * dx + dz * dz < t * t

\* a faulty inner callback without the index === otherIndex test
ConnectWithSelf(conns, levelIndex, pos, index, otherPos, otherIndex) ==
    IF Near(pos, otherPos)
         /\ ~\E k \in 1..Len(conns) : conns[k].to = RoomId(levelIndex, otherIndex)
    THEN Append(conns, [to |-> RoomId(levelIndex, otherIndex),
                        direction |-> getDirection(pos, otherPos)])
    ELSE conns

\* the inner forEach callback (lines 58-76): room.connections after otherIndex
Connect(conns, levelIndex, pos, index, otherPos, otherIndex) ==
    IF index # otherIndex /\ Near(pos, otherPos)
         /\ ~\E k \in 1..Len(conns) : conns[k].to = RoomId(levelIndex, otherIndex)
    THEN Append(conns, [to |-> RoomId(levelIndex, otherIndex),
                        direction |-> getDirection(pos, otherPos)])
    ELSE conns

RECURSIVE Connections(_, _, _, _)
\* the inner positions.forEach, run up to and including other index k - 1
Connections(levelIndex, positions, index, k) ==
    IF k = 0 THEN << >>
    ELSE Connect(Connections(levelIndex, positions, index, k - 1),
                 levelIndex, positions[index + 1], index, positions[k], k - 1)

\* generateLevel (lines 37-86)
generateLevel(levelIndex) ==
    LET y         == levelIndex * grammar.levelHeight
        positions == generateRoomPositions
    IN  [ level |-> levelIndex,
          y     |-> y,
          rooms |-> [k \in 1..Len(positions) |->
                       [ id          |-> RoomId(levelIndex, k - 1),
                         x           |-> positions[k].x,
                         y           |-> y,
                         z           |-> positions[k].z,
                         width       |-> grammar.roomSize,
                         depth       |-> grammar.roomSize,
                         height      |-> grammar.levelHeight,
                         level       |-> levelIndex,
                         connections |-> Connections(levelIndex, positions, k - 1,
                                                     Len(positions)) ]] ]

\* generateStairs (lines 157-169)
generateStairs(levelIndex, levelData) ==
    LET firstRoom == levelData.rooms[1]
    IN  [ x |-> firstRoom.x, y |-> levelData.y, z |-> firstRoom.z,
          width |-> Unit, depth |-> Unit, height |-> grammar.levelHeight,
          level |-> levelIndex ]

\* a faulty test that puts a stair on the top level too
StairWantedOnEveryLevel(lv) == grammar.hasStairs /\ lv < grammar.levels

\* if (this.hasStairs && level < this.levels - 1) (line 27)
StairWanted(lv) == grammar.hasStairs /\ lv < grammar.levels - 1

EmptyBuilding == [levels |-> << >>, stairs |-> << >>]

BuildingIdle ==
    /\ bconfig = << >> /\ grammar = << >> /\ building = EmptyBuilding
    /\ level = 0 /\ bpc = "idle" /\ generated = << >>
    /\ fresh = TRUE /\ madeBy = << >>

BuildingInit ==
    /\ bconfig \in BuildingConfigs
    /\ grammar = Construct(bconfig)
    /\ building = EmptyBuilding
    /\ level = 0
    /\ bpc = "idle"
    /\ generated = << >>
    /\ fresh = TRUE
    /\ madeBy = << >>

\* new BuildingGrammar(config) once more, with the same config object
Reconstruct ==
    /\ bpc = "idle"
    /\ grammar' = Construct(bconfig)
    /\ fresh' = TRUE
    /\ UNCHANGED <<bconfig, building, level, bpc, generated, madeBy>>
    /\ UNCHANGED otherThanBuilding

\* a faulty generate() that goes on with the object of the call before
ReusedBuilding == building

\* const building = { levels: [], stairs: [] } (lines 17-20)
NewBuilding == EmptyBuilding

\* generate(), lines 17-22: the locals before the loop
GenerateEnter ==
    /\ bpc = "idle"
    /\ Len(generated) < MaxGenerates
    /\ building' = NewBuilding
    /\ level' = 0
    /\ bpc' = "loop"
    /\ UNCHANGED <<bconfig, grammar, generated, fresh, madeBy>>
    /\ UNCHANGED otherThanBuilding

\* generate(), lines 22-31: one pass of the loop
GenerateLoop ==
    /\ bpc = "loop"
    /\ level < grammar.levels
    /\ LET levelData == generateLevel(level)
       IN  building' =
               [ levels |-> Append(building.levels, levelData),
                 stairs |-> IF StairWanted(level)
                            THEN Append(building.stairs, generateStairs(level, levelData))
                            ELSE building.stairs ]
    /\ level' = level + 1
    /\ UNCHANGED <<bconfig, grammar, bpc, generated, fresh, madeBy>>
    /\ UNCHANGED otherThanBuilding

\* generate(), line 33: return building
GenerateReturn ==
    /\ bpc = "loop"
    /\ level >= grammar.levels
    /\ generated' = Append(generated, building)
    /\ madeBy' = Append(madeBy, fresh)
    /\ fresh' = FALSE
    /\ bpc' = "idle"
    /\ UNCHANGED <<bconfig, grammar, building, level>>
    /\ UNCHANGED otherThanBuilding

BuildingNext == Reconstruct \/ GenerateEnter \/ GenerateLoop \/ GenerateReturn

-----------------------------------------------------------------------------
(* BuildingGrammar.getDirection called on its own *)

\* the { x, z } objects handed to getDirection
Points == [x : (-MaxCoord)..MaxCoord, z : (-MaxCoord)..MaxCoord]

DirectionIdle == dirFrom = << >> /\ dirTo = << >> /\ dirResult = "none"

DirectionInit ==
    /\ dirFrom \in Points
    /\ dirTo \in Points
    /\ dirResult = "none"

\* one call getDirection(from, to)
CallGetDirection ==
    /\ dirResult = "none"
    /\ dirResult' = getDirection(dirFrom, dirTo)
    /\ UNCHANGED <<dirFrom, dirTo>>
    /\ UNCHANGED otherThanDirection

DirectionNext == CallGetDirection

-----------------------------------------------------------------------------
(* The handles of createPlant and createBuilding: updateConfig *)

\* An optional key of a config object is << >> when the key is absent (or its
\* value undefined or null) and <<v>> when it holds v. A building object is a
\* record of its identity (ref) and its content; strings have no identity.

\* a ?? b
Nullish(a, b) == IF a = << >> THEN b ELSE a[1]

\* the L-system result string and the building object a handle is created with
CreationString == "F[+F]F"
CreationBuilding == [ref |-> 1, levels |-> 2]

\* the config objects handed to createPlant: defaults of lines 9-16 not applied yet
PlantCreations ==
    [ key         : {<<CreationString>>},
      positionX   : {<< >>, <<3>>},
      positionY   : {<< >>, <<4>>},
      positionZ   : {<< >>},
      branchColor : {<< >>, <<"#654321">>},
      leafColor   : {<< >>, <<"#00ff00">>} ]

\* the config objects handed to createBuilding
BuildingCreations ==
    [ key       : {<<CreationBuilding>>},
      positionX : {<< >>, <<3>>},
      positionY : {<< >>, <<4>>},
      positionZ : {<< >>},
      color     : {<< >>, <<"#cccccc">>} ]

\* the newConfig objects handed to a plant handle's updateConfig
PlantUpdates ==
    [ key         : {<< >>, <<CreationString>>, <<"FF">>},
      positionX   : {<< >>, <<7>>},
      positionY   : {<< >>},
      positionZ   : {<< >>, <<9>>},
      branchColor : {<< >>, <<"#111111">>},
      leafColor   : {<< >>, <<"#222222">>} ]

\* the newConfig objects handed to a building handle's updateConfig: without a
\* building, with the object of the creation, with an equal copy of it, with
\* another building
BuildingUpdates ==
    [ key       : {<< >>, <<CreationBuilding>>, <<[ref |-> 2, levels |-> 2]>>,
                   <<[ref |-> 3, levels |-> 3]>>},
      positionX : {<< >>, <<7>>},
      positionY : {<< >>},
      positionZ : {<< >>, <<9>>},
      color     : {<< >>, <<"#111111">>} ]

\* createPlant lines 8-18 and 31-46: the destructured constants
PlantClosure(c) ==
    [ key         |-> c.key[1],
      positionX   |-> Nullish(c.positionX, 0),
      positionY   |-> Nullish(c.positionY, 0),
      positionZ   |-> Nullish(c.positionZ, 0),
      branchColor |-> Nullish(c.branchColor, "#8B4513"),
      leafColor   |-> Nullish(c.leafColor, "#228B22") ]

\* createBuilding lines 7-13
BuildingClosure(c) ==
    [ key       |-> c.key[1],
      positionX |-> Nullish(c.positionX, 0),
      positionY |-> Nullish(c.positionY, 0),
      positionZ |-> Nullish(c.positionZ, 0),
      color     |-> Nullish(c.color, "#ffffff") ]

NoCall == [made |-> FALSE]

HandleIdle ==
    /\ handleKind = "none" /\ closure = << >> /\ groupPosition = << >>
    /\ materialColor = << >> /\ returned = "none" /\ lastCall = NoCall /\ updates = 0

\* createPlant(config, scene) or createBuilding(config, scene) has returned
HandleInit ==
    /\ \/ /\ handleKind = "plant"
          /\ \E c \in PlantCreations :
                /\ closure = PlantClosure(c)
                /\ materialColor = [bark |-> closure.branchColor, leaf |-> closure.leafColor]
       \/ /\ handleKind = "building"
          /\ \E c \in BuildingCreations :
                /\ closure = BuildingClosure(c)
                /\ materialColor = [material |-> closure.color]
    /\ groupPosition = Vec(closure.positionX, closure.positionY, closure.positionZ)
    /\ returned = "none"
    /\ lastCall = NoCall
    /\ updates = 0

\* a faulty test that compares the buildings by content
BuildingChangedByContent(newKey) ==
    newKey = << >> \/ newKey[1].levels # closure.key.levels

\* newConfig.lsystem?.resultString !== lsystem.resultString (createPlant line 190)
StringChanged(newKey) == newKey = << >> \/ newKey[1] # closure.key

\* newConfig.grammar?.building !== grammar.building (createBuilding line 151):
\* two objects are the same when they are one object
BuildingChanged(newKey) == newKey = << >> \/ newKey[1].ref # closure.key.ref

\* lines 196-200 of createPlant, 156-160 of createBuilding
NewPosition(newConfig) ==
    Vec(Nullish(newConfig.positionX, closure.positionX),
        Nullish(newConfig.positionY, closure.positionY),
        Nullish(newConfig.positionZ, closure.positionZ))

\* the updateConfig of the handle of createPlant (lines 187-207)
createPlant_updateConfig(newConfig) ==
    /\ handleKind = "plant"
    /\ updates < MaxUpdates
    /\ IF StringChanged(newConfig.key)
       THEN /\ returned' = "false"
            /\ UNCHANGED <<groupPosition, materialColor>>
       ELSE /\ groupPosition' = NewPosition(newConfig)
            /\ materialColor' =
                  [bark |-> Nullish(newConfig.branchColor, closure.branchColor),
                   leaf |-> Nullish(newConfig.leafColor, closure.leafColor)]
            /\ returned' = "true"
    /\ lastCall' = [made |-> TRUE, newConfig |-> newConfig,
                    position |-> groupPosition, color |-> materialColor]
    /\ updates' = updates + 1
    /\ UNCHANGED <<handleKind, closure>>
    /\ UNCHANGED otherThanHandle

\* the updateConfig of the handle of createBuilding (lines 148-166)
createBuilding_updateConfig(newConfig) ==
    /\ handleKind = "building"
    /\ updates < MaxUpdates
    /\ IF BuildingChanged(newConfig.key)
       THEN /\ returned' = "false"
            /\ UNCHANGED <<groupPosition, materialColor>>
       ELSE /\ groupPosition' = NewPosition(newConfig)
            /\ materialColor' = [material |-> Nullish(newConfig.color, closure.color)]
            /\ returned' = "true"
    /\ lastCall' = [made |-> TRUE, newConfig |-> newConfig,
                    position |-> groupPosition, color |-> materialColor]
    /\ updates' = updates + 1
    /\ UNCHANGED <<handleKind, closure>>
    /\ UNCHANGED otherThanHandle

HandleNext ==
    \/ \E newConfig \in PlantUpdates : createPlant_updateConfig(newConfig)
    \/ \E newConfig \in BuildingUpdates : createBuilding_updateConfig(newConfig)

-----------------------------------------------------------------------------
(* PlayerView: the two flocking effects and the frame loop *)

\* the values of the flockingConfig prop: 0 is null, 1 and 2 are config objects
FlockingConfigs == {0, 1, 2}

\* the object createFlockingMotes(flockingConfig, scene) returns
NewSystem(cfg) ==
    [ config |-> cfg, disposed |-> 0, updated |-> 0, configured |-> 0,
      usedAfterDispose |-> FALSE ]

\* system.dispose()
Dispose(i) == [systems EXCEPT ![i].disposed = @ + 1]

\* a faulty cleanup that leaves the reference as it is
StillReferenced == flockingSystemRef

\* flockingSystemRef.current = null (lines 132 and 144)
Cleared == 0

ViewIdle ==
    /\ mounted = FALSE /\ hasScene = FALSE /\ flockingConfig = 0
    /\ flockingSystemRef = 0 /\ systems = << >> /\ hasCleanup = FALSE
    /\ pvpc = "idle" /\ rerenders = 0 /\ frames = 0

\* the first commit: the scene effect has run, the flocking effects are due
ViewInit ==
    /\ mounted = TRUE
    /\ hasScene \in BOOLEAN
    /\ flockingConfig \in FlockingConfigs
    /\ flockingSystemRef = 0
    /\ systems = << >>
    /\ hasCleanup = FALSE
    /\ pvpc = "dispose"
    /\ rerenders = 0
    /\ frames = 0

\* the parent renders PlayerView with another flockingConfig
Rerender(cfg) ==
    /\ mounted /\ pvpc = "idle"
    /\ rerenders < MaxRerenders
    /\ cfg # flockingConfig
    /\ flockingConfig' = cfg
    /\ rerenders' = rerenders + 1
    /\ pvpc' = "cleanup"
    /\ UNCHANGED <<mounted, hasScene, flockingSystemRef, systems, hasCleanup, frames>>
    /\ UNCHANGED otherThanView

Unmount ==
    /\ mounted /\ pvpc = "idle"
    /\ mounted' = FALSE
    /\ pvpc' = "cleanup"
    /\ UNCHANGED <<hasScene, flockingConfig, flockingSystemRef, systems, hasCleanup,
                   rerenders, frames>>
    /\ UNCHANGED otherThanView

\* the cleanup function of the first effect (lines 141-146), when one was returned
EffectCleanup ==
    /\ pvpc = "cleanup"
    /\ IF hasCleanup /\ flockingSystemRef # 0
       THEN /\ systems' = Dispose(flockingSystemRef)
            /\ flockingSystemRef' = Cleared
       ELSE UNCHANGED <<systems, flockingSystemRef>>
    /\ hasCleanup' = FALSE
    /\ pvpc' = IF mounted THEN "dispose" ELSE "idle"
    /\ UNCHANGED <<mounted, hasScene, flockingConfig, rerenders, frames>>
    /\ UNCHANGED otherThanView

\* the first effect, lines 126-133: no scene, or clean up the existing system
EffectDisposeExisting ==
    /\ pvpc = "dispose"
    /\ IF ~hasScene
       THEN /\ pvpc' = "sync"
            /\ UNCHANGED <<systems, flockingSystemRef>>
       ELSE /\ pvpc' = "create"
            /\ IF flockingSystemRef # 0
               THEN /\ systems' = Dispose(flockingSystemRef)
                    /\ flockingSystemRef' = Cleared
               ELSE UNCHANGED <<systems, flockingSystemRef>>
    /\ UNCHANGED <<mounted, hasScene, flockingConfig, hasCleanup, rerenders, frames>>
    /\ UNCHANGED otherThanView

\* the first effect, lines 135-146: create the new system, return the cleanup
EffectCreate ==
    /\ pvpc = "create"
    /\ IF flockingConfig # 0
       THEN /\ systems' = Append(systems, NewSystem(flockingConfig))
            /\ flockingSystemRef' = Len(systems) + 1
       ELSE UNCHANGED <<systems, flockingSystemRef>>
    /\ hasCleanup' = TRUE
    /\ pvpc' = "sync"
    /\ UNCHANGED <<mounted, hasScene, flockingConfig, rerenders, frames>>
    /\ UNCHANGED otherThanView

\* the second effect (lines 150-154)
EffectUpdateConfig ==
    /\ pvpc = "sync"
    /\ IF flockingSystemRef # 0 /\ flockingConfig # 0
       THEN systems' = [systems EXCEPT
                ![flockingSystemRef].config = flockingConfig,
                ![flockingSystemRef].configured = @ + 1,
                ![flockingSystemRef].usedAfterDispose =
                    @ \/ systems[flockingSystemRef].disposed > 0]
       ELSE UNCHANGED systems
    /\ pvpc' = "idle"
    /\ UNCHANGED <<mounted, hasScene, flockingConfig, flockingSystemRef, hasCleanup,
                   rerenders, frames>>
    /\ UNCHANGED otherThanView

\* one animation frame (lines 74-92); the loop is never cancelled
animate ==
    /\ frames < MaxFrames
    /\ frames' = frames + 1
    /\ IF flockingSystemRef # 0
       THEN systems' = [systems EXCEPT
                ![flockingSystemRef].updated = @ + 1,
                ![flockingSystemRef].usedAfterDispose =
                    @ \/ systems[flockingSystemRef].disposed > 0]
       ELSE UNCHANGED systems
    /\ UNCHANGED <<mounted, hasScene, flockingConfig, flockingSystemRef, hasCleanup,
                   pvpc, rerenders>>
    /\ UNCHANGED otherThanView

ViewNext ==
    \/ \E cfg \in FlockingConfigs : Rerender(cfg)
    \/ Unmount
    \/ EffectCleanup
    \/ EffectDisposeExisting
    \/ EffectCreate
    \/ EffectUpdateConfig
    \/ animate

-----------------------------------------------------------------------------
(* createFlowers: the placement loop (lines 60-125, 203-204) *)

\* const maxAttempts = count * 20
AttemptsPerFlower == 20
maxAttempts == flowerCount * AttemptsPerFlower

\* a faulty loop condition without the attempt budget
LoopGoesOnUntilFull == Len(flowers) < flowerCount

\* flowers.length < count && attempts < maxAttempts (line 70)
LoopGoesOn == Len(flowers) < flowerCount /\ attempts < maxAttempts

FlowersIdle ==
    /\ flowerCount = 0 /\ noiseConfig = FALSE /\ flowers = << >>
    /\ attempts = 0 /\ flowerPc = "returned"

\* lines 7-67: config given, count a natural number
FlowersInit ==
    /\ flowerCount \in 0..MaxCount
    /\ noiseConfig \in BOOLEAN
    /\ flowers = << >>
    /\ attempts = 0
    /\ flowerPc = "loop"

\* one pass that ends at the first continue: noiseValue < threshold (lines
\* 71-93); without a noiseConfig the noise value is 0.5 and passes
SkipLowNoise ==
    /\ flowerPc = "loop" /\ LoopGoesOn
    /\ noiseConfig
    /\ attempts' = attempts + 1
    /\ UNCHANGED <<flowerCount, noiseConfig, flowers, flowerPc>>
    /\ UNCHANGED otherThanFlowers

\* one pass that ends at the second continue: terrainHeight <= WATER_LEVEL
\* (lines 71-125)
SkipWater ==
    /\ flowerPc = "loop" /\ LoopGoesOn
    /\ attempts' = attempts + 1
    /\ UNCHANGED <<flowerCount, noiseConfig, flowers, flowerPc>>
    /\ UNCHANGED otherThanFlowers

\* one pass that reaches flowers.push(flowerGroup) (lines 71-204)
PlaceFlower ==
    /\ flowerPc = "loop" /\ LoopGoesOn
    /\ attempts' = attempts + 1
    /\ flowers' = Append(flowers, "flowerGroup")
    /\ UNCHANGED <<flowerCount, noiseConfig, flowerPc>>
    /\ UNCHANGED otherThanFlowers

\* the loop condition fails: the function goes on to its return (lines 206-211)
ReturnFlowers ==
    /\ flowerPc = "loop" /\ ~LoopGoesOn
    /\ flowerPc' = "returned"
    /\ UNCHANGED <<flowerCount, noiseConfig, flowers, attempts>>
    /\ UNCHANGED otherThanFlowers

FlowersNext == SkipLowNoise \/ SkipWater \/ PlaceFlower \/ ReturnFlowers

-----------------------------------------------------------------------------
(* Specifications, one per component; the other components stand idle *)

FlockIdle ==
    /\ boids = << >> /\ config = DefaultConfig
    /\ position = << >> /\ velocity = << >> /\ acceleration = << >>
    /\ ticks = << >> /\ passes = << >> /\ lastOp = "new" /\ calls = 0

InitFlock == FlockInit /\ LSysIdle /\ TurtleIdle /\ BuildingIdle /\ DirectionIdle /\ HandleIdle /\ ViewIdle
    /\ FlowersIdle
InitLSystem == LSysInit /\ FlockIdle /\ TurtleIdle /\ BuildingIdle /\ DirectionIdle /\ HandleIdle /\ ViewIdle
    /\ FlowersIdle
InitTurtle == TurtleInit /\ FlockIdle /\ LSysIdle /\ BuildingIdle /\ DirectionIdle /\ HandleIdle /\ ViewIdle
    /\ FlowersIdle
InitBuilding == BuildingInit /\ FlockIdle /\ LSysIdle /\ TurtleIdle /\ DirectionIdle /\ HandleIdle /\ ViewIdle
    /\ FlowersIdle
InitDirection == DirectionInit /\ FlockIdle /\ LSysIdle /\ TurtleIdle /\ BuildingIdle /\ HandleIdle /\ ViewIdle
    /\ FlowersIdle
InitHandle ==
    HandleInit /\ FlockIdle /\ LSysIdle /\ TurtleIdle /\ BuildingIdle /\ DirectionIdle
        /\ ViewIdle /\ FlowersIdle
InitView ==
    ViewInit /\ FlockIdle /\ LSysIdle /\ TurtleIdle /\ BuildingIdle /\ DirectionIdle
        /\ HandleIdle /\ FlowersIdle
InitFlowers ==
    FlowersInit /\ FlockIdle /\ LSysIdle /\ TurtleIdle /\ BuildingIdle /\ DirectionIdle
        /\ HandleIdle /\ ViewIdle

SpecFlock == InitFlock /\ [][FlockNext]_vars
SpecLSystem == InitLSystem /\ [][LSysNext]_vars
SpecTurtle == InitTurtle /\ [][TurtleNext]_vars
SpecBuilding == InitBuilding /\ [][BuildingNext]_vars
SpecDirection == InitDirection /\ [][DirectionNext]_vars
SpecHandle == InitHandle /\ [][HandleNext]_vars
SpecView == InitView /\ [][ViewNext]_vars
\* createFlowers is one synchronous call: a loop that can go on does go on
SpecFlowers == InitFlowers /\ [][FlowersNext]_vars /\ WF_vars(FlowersNext)

-----------------------------------------------------------------------------
(* Claims about the flocking simulator *)

\* the Boid objects of the agent set
Flock == {boids[k] : k \in 1..Len(boids)}

\* C1: after every update(dt), every agent of the set moves no faster than the
\* configured maxSpeed, whatever value the configuration holds.
C1_SpeedWithinConfiguredMax ==
    lastOp = "update" =>
        \A b \in Flock : LengthSq(velocity[b]) <= config.maxSpeed * config.maxSpeed

\* C2: one update(dt) integrates every agent object of the set exactly once,
\* also when addBoid has put the same object into the array more than once.
C2_OneTickPerAgent ==
    lastOp = "update" => \A b \in Flock : ticks[b] = 1

-----------------------------------------------------------------------------
(* Claims about the L-system *)

\* the pass as the specification words it: a symbol with a rule is replaced by
\* the rule's string, whatever that string is
RECURSIVE ClaimedPass(_, _, _)
ClaimedPass(r, str, k) ==
    IF k > Len(str) THEN << >>
    ELSE (IF str[k] \in DOMAIN r THEN r[str[k]] ELSE <<str[k]>>) \o ClaimedPass(r, str, k + 1)

RECURSIVE ClaimedPasses(_, _, _)
ClaimedPasses(r, str, n) ==
    IF n <= 0 THEN str ELSE ClaimedPasses(r, ClaimedPass(r, str, 1), n - 1)

\* C3: iterate() returns the axiom rewritten `iterations` times, each pass
\* replacing every symbol that has a rule by the rule's string (the empty
\* string included) and copying the others.
C3_IterateIsTheExpansion ==
    \A k \in 1..Len(returns) :
        returns[k].op = "iterate" =>
            returns[k].value = ClaimedPasses(rules, axiom, iterations)

\* C4: every iterate() on the same instance returns the same string, whatever
\* currentString held before, and a later getString() returns that string too.
C4_IterateIdempotent ==
    \A j, k \in 1..Len(returns) :
        (j < k /\ returns[j].op = "iterate") => returns[k].value = returns[j].value

\* two iterate() calls that grew the axiom, then a getString()
C4_Witness ==
    /\ Len(returns) = 3
    /\ returns[1].op = "iterate" /\ returns[2].op = "iterate"
    /\ returns[3].op = "getString"
    /\ iterations = 2
    /\ Len(returns[3].value) > Len(axiom)

-----------------------------------------------------------------------------
(* Claims about the turtle interpreter *)

RECURSIVE ScanBack(_, _, _)
\* scanning left from j with `depth` closes still to be matched: the index of
\* the innermost unclosed "[", 0 when there is none
ScanBack(str, j, depth) ==
    IF j = 0 THEN 0
    ELSE IF str[j] = "]" THEN ScanBack(str, j - 1, depth + 1)
    ELSE IF str[j] = "[" THEN (IF depth = 0 THEN j ELSE ScanBack(str, j - 1, depth - 1))
    ELSE ScanBack(str, j - 1, depth)

\* the "[" that the "]" at index k closes, 0 when it closes none
MatchOpen(str, k) == ScanBack(str, k - 1, 0)

BranchExample == <<"F", "[", "+", "F", "]", "F">>

\* C5: a "]" with a matching "[" puts position and heading back to what they
\* were when that "[" was processed; in "F[+F]F" the third segment starts where
\* the first ended and runs in the same direction.
C5_BranchRestore ==
    /\ \A k \in 1..turtle.i :
          (lstring[k] = "]" /\ MatchOpen(lstring, k) > 0) =>
              trail[k + 1] = trail[MatchOpen(lstring, k)]
    /\ (parsed.returned /\ lstring = BranchExample) =>
          LET c == parsed.commands
          IN  /\ Len(c) = 3
              /\ c[3].from = c[1].to
              /\ sub(c[3].to, c[3].from) = sub(c[1].to, c[1].from)

\* "F[+F]F" interpreted to the end, the branch having left the stem
C5_Witness ==
    /\ parsed.returned
    /\ lstring = BranchExample
    /\ trail[5] # trail[2]
    /\ trail[5].angle # trail[2].angle
    /\ trail[6] = trail[2]

\* number of F and G among the first k symbols
RECURSIVE CountDrawn(_, _)
CountDrawn(str, k) ==
    IF k = 0 THEN 0
    ELSE CountDrawn(str, k - 1) + (IF str[k] \in Drawing THEN 1 ELSE 0)

\* C6: interpretation starts at the origin with heading 0; each F or G emits
\* one line from the current position to the point stepSize further along the
\* heading and moves there; no other symbol emits anything; "F" with step 1
\* gives the single line (0,0,0)-(0,1,0).
C6_SegmentEmission ==
    /\ trail[1] = [x |-> 0, y |-> 0, z |-> 0, angle |-> 0]
    /\ Len(turtle.commands) = CountDrawn(lstring, turtle.i)
    /\ \A k \in 1..turtle.i :
          lstring[k] \in Drawing =>
              LET c == turtle.commands[CountDrawn(lstring, k)]
                  p == trail[k]
              IN  /\ c.type = "line"
                  /\ c.from = Vec(p.x, p.y, p.z)
                  /\ c.to = Vec(p.x + Div(Sin(p.angle) * stepSize, Unit),
                                p.y + Div(Cos(p.angle) * stepSize, Unit), p.z)
                  /\ c.to = Vec(trail[k + 1].x, trail[k + 1].y, trail[k + 1].z)
    /\ (parsed.returned /\ lstring = <<"F">> /\ stepSize = Unit) =>
          parsed.commands = <<[type |-> "line", from |-> Zero3, to |-> Vec(0, Unit, 0)]>>

\* a drawn segment off the vertical, after a turn, next to an undrawn symbol
C6_Witness ==
    /\ parsed.returned
    /\ lstring = <<"+", "F", "G">>
    /\ angle = 25
    /\ Len(parsed.commands) = 2
    /\ parsed.commands[1].to.x > 0
    /\ parsed.commands[2].from = parsed.commands[1].to

\* C7: a "]" met with an empty stack changes neither position, heading, stack
\* nor the command list, and the loop goes on to the next symbol.
C7_UnmatchedCloseIsNoOp ==
    [][ ( /\ ~parsed.returned
          /\ turtle.i < Len(lstring)
          /\ lstring[turtle.i + 1] = "]"
          /\ turtle.stack = << >> )
        => turtle' = [turtle EXCEPT !.i = @ + 1] ]_vars

\* an unmatched "]" was passed away from the origin, and a segment drawn after it
C7_Witness ==
    /\ parsed.returned
    /\ lstring = <<"F", "]", "F">>
    /\ Len(parsed.commands) = 2
    /\ parsed.commands[2].from = parsed.commands[1].to
    /\ parsed.commands[2].from # Zero3

\* the string without the symbols that have no effect
Strip(str) == SelectSeq(str, LAMBDA c : c \in Effective)

RECURSIVE Interpret(_, _, _, _, _)
\* the locals after the symbols k.. of str, started from t
Interpret(t, str, k, ang, step) ==
    IF k > Len(str) THEN t
    ELSE Interpret(Switch(t, str[k], ang, step), str, k + 1, ang, step)

\* C8: the commands returned for a string are those returned for the string
\* with every symbol outside F G + - | [ ] taken out.
C8_UnrecognizedIgnored ==
    parsed.returned =>
        parsed.commands = Interpret(TurtleStart, Strip(lstring), 1, angle, stepSize).commands

\* a reserved symbol and an unknown one around a turn that is drawn
C8_Witness ==
    /\ parsed.returned
    /\ lstring \in { <<"&", "+", "F">>, <<"X", "-", "G">>, <<"/", "F", "^">> }
    /\ Len(parsed.commands) = 1

-----------------------------------------------------------------------------
(* Claims about the building shape grammar *)

\* room r lists a connection to the room with id `target`
ConnectsTo(r, target) == \E k \in 1..Len(r.connections) : r.connections[k].to = target

\* the planar distance of two rooms is below roomSize * 1.2
WithinReach(r, q) ==
    LET dx == r.x - q.x
        dz == r.z - q.z
        t  == Div(r.width * 12, 10)
    IN  dx * dx + dz * dz < t * t

\* C9: in every generated level, two distinct rooms closer than roomSize * 1.2
\* are connected from at least one of the two, no room is connected to itself,
\* and no connection list names the same target twice.
C9_Connectivity ==
    \A n \in 1..Len(building.levels) :
        LET rooms == building.levels[n].rooms
        IN  \A a \in 1..Len(rooms) :
              /\ \A b \in 1..Len(rooms) :
                    (a # b /\ WithinReach(rooms[a], rooms[b])) =>
                        (ConnectsTo(rooms[a], rooms[b].id) \/ ConnectsTo(rooms[b], rooms[a].id))
              /\ ~ConnectsTo(rooms[a], rooms[a].id)
              /\ \A j, k \in 1..Len(rooms[a].connections) :
                    j # k => rooms[a].connections[j].to # rooms[a].connections[k].to

\* a returned 2 x 2 grid level: every room next to two others
C9_Witness ==
    /\ Len(generated) > 0
    /\ grammar.roomLayout = "grid"
    /\ grammar.roomsPerLevel = 4
    /\ \A a \in 1..4 : Len(generated[1].levels[1].rooms[a].connections) = 2
    /\ ~WithinReach(generated[1].levels[1].rooms[1], generated[1].levels[1].rooms[4])

\* C10: with stairs enabled a returned building has levels - 1 stairs, the
\* k-th of them starting on level k at that level's first room and height,
\* 1 x 1 wide and one level high; with stairs disabled it has none.
C10_Stairs ==
    \A g \in 1..Len(generated) :
        LET b == generated[g]
        IN  IF grammar.hasStairs
            THEN /\ Len(b.stairs) = grammar.levels - 1
                 /\ \A k \in 0..(grammar.levels - 2) :
                       LET stair == b.stairs[k + 1]
                           lv    == b.levels[k + 1]
                       IN  /\ stair.level = k
                           /\ lv.level = k
                           /\ stair.x = lv.rooms[1].x
                           /\ stair.z = lv.rooms[1].z
                           /\ stair.y = lv.y
                           /\ lv.y = k * grammar.levelHeight
                           /\ stair.width = Unit
                           /\ stair.depth = Unit
                           /\ stair.height = grammar.levelHeight
            ELSE b.stairs = << >>

\* three levels with stairs: two stairs, off the origin, at different heights
C10_Witness ==
    /\ Len(generated) > 0
    /\ grammar.hasStairs
    /\ grammar.levels = 3
    /\ Len(generated[1].stairs) = 2
    /\ generated[1].stairs[2].y > generated[1].stairs[1].y
    /\ generated[1].stairs[2].x # 0

\* C11: a config with roomsPerLevel = 0 gives levels whose room list is empty.
C11_ZeroRoomsPerLevel ==
    bconfig.roomsPerLevel = 0 =>
        \A n \in 1..Len(building.levels) : building.levels[n].rooms = << >>

------------------------------------------------------------------------------
(* Claims about the flock, continued *)

\* C12: when the agent set holds a single agent, every pass of an update(dt)
\* gets the zero vector from separate, align and cohesion, so the acceleration
\* it integrates is the boundary contribution alone, which is zero when the
\* agent is not past a boundary threshold.
C12_SingleAgentQuiescence ==
    (lastOp = "update" /\ Cardinality(Flock) = 1) =>
        \A k \in 1..Len(passes) :
            /\ passes[k].sep = Zero3
            /\ passes[k].ali = Zero3
            /\ passes[k].coh = Zero3
            /\ passes[k].acc = passes[k].bnd
            /\ (BoundarySteer(passes[k].position[passes[k].boid]) = Zero3
                    => passes[k].acc = Zero3)

\* a lone moving agent was stepped, and a lone agent past a threshold was pushed
C12_Witness ==
    /\ lastOp = "update"
    /\ Cardinality(Flock) = 1
    /\ Len(passes) > 0
    /\ \/ /\ passes[1].velocity[passes[1].boid] # Zero3
          /\ passes[1].acc = Zero3
          /\ config.maxForce > 0
       \/ /\ passes[1].bnd # Zero3
          /\ passes[1].acc = passes[1].bnd

\* C13: with maxForce = 0 every pass of an update(dt) gets the zero vector for
\* all four steering contributions, and the step leaves the velocity of every
\* agent that was within the configured speed limit unchanged and moves its
\* position by velocity * dt and by nothing else.
C13_ZeroMaxForce ==
    (lastOp = "update" /\ config.maxForce = 0) =>
        /\ \A k \in 1..Len(passes) :
               /\ passes[k].sep = Zero3
               /\ passes[k].ali = Zero3
               /\ passes[k].coh = Zero3
               /\ passes[k].bnd = Zero3
        /\ \A b \in Flock :
               LET v0 == passes[1].velocity[b]
                   p0 == passes[1].position[b]
               IN  LengthSq(v0) <= config.maxSpeed * config.maxSpeed =>
                       /\ velocity[b] = v0
                       /\ position[b] = add(p0, multiplyScalar(v0, passes[1].dt))

\* the velocity of the agent of pass k when the pass ends
VelocityAfter(ps, last, k) ==
    IF k < Len(ps) THEN ps[k + 1].velocity[ps[k].boid] ELSE last[ps[k].boid]

\* a velocity held to a speed limit, as the specification words it
LimitedTo(v, limit) ==
    IF LengthSq(v) > limit * limit THEN multiplyScalar(normalize(v), limit) ELSE v

\* C14: updateConfig(partial) gives every key of partial its new value, keeps
\* every other key, leaves the agent set and every position and velocity
\* alone, and the update(dt) that follows computes the four forces and the
\* speed limit of every pass with the merged configuration.
C14_UpdateConfigMerges ==
    [][ /\ (lastOp' = "updateConfig" /\ calls' = calls + 1) =>
              /\ \E partial \in ConfigInputs :
                     /\ \A key \in DOMAIN partial : config'[key] = partial[key]
                     /\ \A key \in DOMAIN config \ DOMAIN partial :
                            config'[key] = config[key]
              /\ UNCHANGED <<boids, position, velocity>>
        /\ (lastOp = "updateConfig" /\ lastOp' = "update") =>
              \A k \in 1..Len(passes') :
                 LET ps == passes'[k]
                     st == [position |-> ps.position, velocity |-> ps.velocity]
                 IN  /\ ps.sep = multiplyScalar(separate(st, ps.boid), config'.separation)
                     /\ ps.ali = multiplyScalar(align(st, ps.boid), config'.alignment)
                     /\ ps.coh = multiplyScalar(cohesion(st, ps.boid), config'.cohesion)
                     /\ ps.bnd = boundaries(st, ps.boid)
                     /\ VelocityAfter(passes', velocity', k) =
                            LimitedTo(add(ps.velocity[ps.boid],
                                          multiplyScalar(ps.acc, ps.dt)),
                                      config'.maxSpeed)
      ]_vars

------------------------------------------------------------------------------
(* Claims about the building grammar, continued *)

\* every level of b has the instance's roomsPerLevel rooms, room i on the
\* three-column wrapping grid
OnFallbackGrid(b) ==
    /\ Len(b.levels) = grammar.levels
    /\ \A n \in 1..Len(b.levels) :
          LET rooms   == b.levels[n].rooms
              spacing == Div(grammar.roomSize * 11, 10)
          IN  /\ Len(rooms) = grammar.roomsPerLevel
              /\ \A i \in 0..(Len(rooms) - 1) :
                    /\ rooms[i + 1].x = ((i % 3) - 1) * spacing
                    /\ rooms[i + 1].z = ((i \div 3) - 1) * spacing

\* every level of b has the instance's roomsPerLevel rooms on the centred grid
\* of ceil(sqrt(n)) columns
OnCentredGrid(b) ==
    /\ Len(b.levels) = grammar.levels
    /\ \A n \in 1..Len(b.levels) :
          LET rooms   == b.levels[n].rooms
              spacing == Div(grammar.roomSize * 11, 10)
              cols    == CeilSqrt(grammar.roomsPerLevel)
              rows    == CeilDiv(grammar.roomsPerLevel, cols)
          IN  /\ Len(rooms) = grammar.roomsPerLevel
              /\ \A i \in 0..(Len(rooms) - 1) :
                    /\ 2 * rooms[i + 1].x - ((2 * (i % cols) - (cols - 1)) * spacing) \in {-1, 0, 1}
                    /\ 2 * rooms[i + 1].z - ((2 * (i \div cols) - (rows - 1)) * spacing) \in {-1, 0, 1}

\* C15 as worded: for every roomLayout value other than "grid", "linear" and
\* "radial", generate() returns a building whose levels each hold roomsPerLevel
\* rooms on the three-column wrapping grid.
C15_AnyOtherLayoutFallsBack ==
    bconfig.roomLayout \notin {"grid", "linear", "radial"} =>
        \A g \in 1..Len(generated) : OnFallbackGrid(generated[g])

\* C15: for every non-empty roomLayout value other than "grid", "linear" and
\* "radial", generate() returns a building whose levels each hold roomsPerLevel
\* rooms on the three-column wrapping grid; an empty roomLayout counts as an
\* absent one and gives the centred grid.
C15_UnrecognizedLayoutFallsBack ==
    /\ bconfig.roomLayout \notin {"", "grid", "linear", "radial"} =>
          \A g \in 1..Len(generated) : OnFallbackGrid(generated[g])
    /\ bconfig.roomLayout = "" =>
          \A g \in 1..Len(generated) : OnCentredGrid(generated[g])

\* a returned building of an unrecognized layout whose rooms wrap into a
\* second row
C15_Witness ==
    /\ Len(generated) > 0
    /\ bconfig.roomLayout = "spiral"
    /\ grammar.roomsPerLevel >= 5
    /\ generated[1].levels[1].rooms[4].x < 0
    /\ generated[1].levels[1].rooms[4].z = 0
    /\ generated[1].levels[1].rooms[3].z < 0

\* C16: the buildings returned by calls of generate() under one configuration,
\* on one instance or on separately constructed ones, are identical in every
\* part: levels, rooms, ids, positions, connection lists in order, stairs;
\* and a call leaves the fields of the instance as the constructor set them.
C16_Determinism ==
    /\ \A g, h \in 1..Len(generated) : generated[g] = generated[h]
    /\ grammar = Construct(bconfig)

\* two returned buildings with connected rooms and a stair, the second one
\* from an instance constructed after the first returned
C16_Witness ==
    /\ Len(generated) = 2
    /\ madeBy = <<TRUE, TRUE>>
    /\ Len(generated[2].levels) >= 2
    /\ Len(generated[2].stairs) >= 1
    /\ Len(generated[2].levels[2].rooms) >= 4
    /\ Len(generated[2].levels[2].rooms[1].connections) >= 2
    /\ generated[1] = generated[2]

\* C17: in the grid layout, with cols = ceil(sqrt(roomsPerLevel)) and room i in
\* column i mod cols and row floor(i / cols), room i lists room j exactly when
\* the two cells are orthogonal neighbours; in a level of four rooms every room
\* lists exactly two.
C17_GridAdjacency ==
    grammar.roomLayout = "grid" =>
        \A n \in 1..Len(building.levels) :
            LET rooms == building.levels[n].rooms
                cols  == CeilSqrt(grammar.roomsPerLevel)
            IN  /\ \A i, j \in 0..(Len(rooms) - 1) :
                      ConnectsTo(rooms[i + 1], rooms[j + 1].id)
                          <=> (Abs((i % cols) - (j % cols))
                                 + Abs((i \div cols) - (j \div cols)) = 1)
                /\ grammar.roomsPerLevel = 4 =>
                      \A i \in 1..Len(rooms) : Len(rooms[i].connections) = 2

\* a 3 x 3 grid level: the middle room lists four rooms, a corner room two,
\* and the corner does not list the middle
C17_Witness ==
    /\ grammar.roomLayout = "grid"
    /\ grammar.roomsPerLevel = 9
    /\ Len(building.levels) > 0
    /\ Len(building.levels[1].rooms[5].connections) = 4
    /\ Len(building.levels[1].rooms[1].connections) = 2
    /\ ~ConnectsTo(building.levels[1].rooms[1], building.levels[1].rooms[5].id)

Opposite(d) ==
    CASE d = "east" -> "west" [] d = "west" -> "east"
      [] d = "north" -> "south" [] d = "south" -> "north"

\* the direction room r records towards target
DirectionTo(r, target) ==
    LET k == CHOOSE k \in 1..Len(r.connections) : r.connections[k].to = target
    IN  r.connections[k].direction

\* C18: in every generated level of every layout, room A lists room B if and
\* only if room B lists room A, and the two recorded directions are opposite.
C18_ConnectionSymmetry ==
    \A n \in 1..Len(building.levels) :
        LET rooms == building.levels[n].rooms
        IN  \A a, b \in 1..Len(rooms) :
              /\ ConnectsTo(rooms[a], rooms[b].id) <=> ConnectsTo(rooms[b], rooms[a].id)
              /\ ConnectsTo(rooms[a], rooms[b].id) =>
                    DirectionTo(rooms[b], rooms[a].id)
                        = Opposite(DirectionTo(rooms[a], rooms[b].id))

\* a radial level of nine rooms: neighbours on the circle list each other,
\* south one way and north the other
C18_Witness ==
    /\ grammar.roomLayout = "radial"
    /\ grammar.roomsPerLevel = 9
    /\ Len(building.levels) > 0
    /\ ConnectsTo(building.levels[1].rooms[1], building.levels[1].rooms[2].id)
    /\ DirectionTo(building.levels[1].rooms[1], building.levels[1].rooms[2].id) = "south"
    /\ DirectionTo(building.levels[1].rooms[2], building.levels[1].rooms[1].id) = "north"
    /\ ~ConnectsTo(building.levels[1].rooms[1], building.levels[1].rooms[3].id)

-----------------------------------------------------------------------------
(* Claims about getDirection *)

\* C19 as worded: getDirection compares |dx| with |dz| and a tie goes to the x
\* axis: east (dx > 0) or west whenever |dx| >= |dz|, north or south only when
\* |dz| is strictly larger.
C19_TieFavoursX ==
    dirResult # "none" =>
        LET dx == dirTo.x - dirFrom.x
            dz == dirTo.z - dirFrom.z
        IN  IF Abs(dz) > Abs(dx)
            THEN dirResult = (IF dz > 0 THEN "south" ELSE "north")
            ELSE dirResult = (IF dx > 0 THEN "east" ELSE "west")

\* C19: getDirection compares |dx| with |dz| and a tie goes to the z axis:
\* east (dx > 0) or west only when |dx| is strictly larger, otherwise south
\* (dz > 0) or north, north also for two equal points.
C19_TieFavoursZ ==
    dirResult # "none" =>
        LET dx == dirTo.x - dirFrom.x
            dz == dirTo.z - dirFrom.z
        IN  IF Abs(dx) > Abs(dz)
            THEN dirResult = (IF dx > 0 THEN "east" ELSE "west")
            ELSE dirResult = (IF dz > 0 THEN "south" ELSE "north")

\* a call on a tie with both differences positive returned south
C19_Witness ==
    /\ dirResult = "south"
    /\ dirTo.x - dirFrom.x = dirTo.z - dirFrom.z
    /\ dirTo.x - dirFrom.x > 0

-----------------------------------------------------------------------------
(* Claims about the order of the flock's loop *)

\* the forces of pass ps are the ones the state st gives
ForcesReadFrom(ps, st) ==
    /\ ps.sep = multiplyScalar(separate(st, ps.boid), config.separation)
    /\ ps.ali = multiplyScalar(align(st, ps.boid), config.alignment)
    /\ ps.coh = multiplyScalar(cohesion(st, ps.boid), config.cohesion)
    /\ ps.bnd = boundaries(st, ps.boid)
    /\ ps.acc = add(add(add(ps.sep, ps.ali), ps.coh), ps.bnd)

\* positions and velocities when pass k ends: what pass k + 1 starts from, or
\* the state the step leaves
StateAfter(k) ==
    IF k < Len(passes)
    THEN [position |-> passes[k + 1].position, velocity |-> passes[k + 1].velocity]
    ELSE [position |-> position, velocity |-> velocity]

\* positions and velocities when pass k starts
StateBefore(k) == [position |-> passes[k].position, velocity |-> passes[k].velocity]

\* C20: one update(dt) makes one pass per array entry, in array order; each
\* pass computes the forces on its agent from the state the pass before left
\* (agents of earlier passes already moved, the others as before the step) and
\* integrates that agent, and no other, at once.
C20_SequentialInPlace ==
    lastOp = "update" =>
        /\ Len(passes) = Len(boids)
        /\ \A k \in 1..Len(passes) :
              LET ps == passes[k]
                  b  == ps.boid
                  v  == StateAfter(k).velocity[b]
              IN  /\ b = boids[k]
                  /\ ForcesReadFrom(ps, StateBefore(k))
                  /\ v = LimitedTo(add(ps.velocity[b], multiplyScalar(ps.acc, ps.dt)),
                                   SpeedLimit)
                  /\ StateAfter(k).position[b] = add(ps.position[b], multiplyScalar(v, ps.dt))
                  /\ \A o \in BoidIds \ {b} :
                        /\ StateAfter(k).position[o] = ps.position[o]
                        /\ StateAfter(k).velocity[o] = ps.velocity[o]

RECURSIVE StepInOrder(_, _, _, _)
\* the loop of update run over the agents in the given order
StepInOrder(st, order, k, dt) ==
    IF k > Len(order) THEN st
    ELSE StepInOrder(StepBoid(st, order[k], dt), order, k + 1, dt)

\* a step of two agents in which the second pass read forces the state before
\* the step does not give, and which ends elsewhere when the order is swapped
C20_Witness ==
    /\ lastOp = "update"
    /\ Len(boids) = 2
    /\ boids[1] # boids[2]
    /\ ~ForcesReadFrom(passes[2], StateBefore(1))
    /\ LET swapped == StepInOrder([position |-> passes[1].position,
                                   velocity |-> passes[1].velocity,
                                   acceleration |-> acceleration,
                                   ticks |-> ticks, passes |-> << >>],
                                  <<boids[2], boids[1]>>, 1, passes[1].dt)
       IN  swapped.position # position \/ swapped.velocity # velocity

-----------------------------------------------------------------------------
(* Claims about the flock's forces *)

\* C21: after every update(dt) the acceleration of every agent of the set is
\* the zero vector, and the acceleration a pass integrated is the sum of the
\* four forces of that pass, with nothing left from a step before.
C21_AccelerationIsScratch ==
    lastOp = "update" =>
        /\ \A b \in Flock : acceleration[b] = Zero3
        /\ \A k \in 1..Len(passes) :
              passes[k].acc = add(add(add(passes[k].sep, passes[k].ali),
                                      passes[k].coh), passes[k].bnd)

\* an update after an earlier one has moved the agents: a pass integrated a
\* force, and the agent's acceleration is zero again
C21_Witness ==
    /\ lastOp = "update"
    /\ Len(passes) > 0
    /\ passes[1].acc # Zero3
    /\ acceleration[passes[1].boid] = Zero3
    /\ \A sc \in StartScenes : passes[1].position # sc.position

\* the array entries other than b that are not at b's position
Apart(st, b) == SelectSeq(Others(b), LAMBDA o : st.position[o] # st.position[b])

\* C22: in every pass, the sums and neighbour counts of separation, alignment
\* and cohesion are the ones got with every agent at distance 0 taken out of
\* the array, and an agent with nobody but coincident agents around it gets
\* the zero vector from all three.
C22_CoincidentExcluded ==
    lastOp = "update" =>
        \A k \in 1..Len(passes) :
            LET ps == passes[k]
                b  == ps.boid
                st == StateBefore(k)
            IN  /\ SumSeparation(st, b, Others(b), 1) = SumSeparation(st, b, Apart(st, b), 1)
                /\ SumNeighbors(st, b, Others(b), 1, "velocity")
                      = SumNeighbors(st, b, Apart(st, b), 1, "velocity")
                /\ SumNeighbors(st, b, Others(b), 1, "position")
                      = SumNeighbors(st, b, Apart(st, b), 1, "position")
                /\ SumNeighbors(st, b, Others(b), 1, "velocity").count <= Len(Apart(st, b))
                /\ Apart(st, b) = << >> =>
                      ps.sep = Zero3 /\ ps.ali = Zero3 /\ ps.coh = Zero3

\* a pass on an agent that shares its position with a distinct moving agent
\* got no steering from it
C22_Witness ==
    /\ lastOp = "update"
    /\ Len(passes) > 0
    /\ config.maxForce > 0
    /\ \E o \in Flock \ {passes[1].boid} :
          /\ passes[1].position[o] = passes[1].position[passes[1].boid]
          /\ passes[1].velocity[o] # passes[1].velocity[passes[1].boid]
    /\ passes[1].sep = Zero3
    /\ passes[1].ali = Zero3
    /\ passes[1].coh = Zero3

\* the low and high thresholds of the three axes: 5 units inside the
\* horizontal extents, 5 units around planeHeight
Low == [x |-> config.center.x - Div(config.bounds.width, 2) + 5 * Unit,
        y |-> config.planeHeight - 5 * Unit,
        z |-> config.center.z - Div(config.bounds.depth, 2) + 5 * Unit]
High == [x |-> config.center.x + Div(config.bounds.width, 2) - 5 * Unit,
         y |-> config.planeHeight + 5 * Unit,
         z |-> config.center.z + Div(config.bounds.depth, 2) - 5 * Unit]

\* the desired direction of one axis
PushBack(p, axis) ==
    IF p[axis] < Low[axis] THEN Unit ELSE IF p[axis] > High[axis] THEN -Unit ELSE 0

\* C23: the boundary contribution of a pass is the zero vector when the agent
\* is within the thresholds on all three axes; otherwise it is steered, within
\* maxForce, towards the direction that has +1 on each axis below its low
\* threshold, -1 on each axis above its high threshold and 0 on the others.
C23_BoundaryTrigger ==
    lastOp = "update" =>
        \A k \in 1..Len(passes) :
            LET ps == passes[k]
                p  == ps.position[ps.boid]
                v  == ps.velocity[ps.boid]
                d  == Vec(PushBack(p, "x"), PushBack(p, "y"), PushBack(p, "z"))
            IN  IF \A axis \in {"x", "y", "z"} : Low[axis] <= p[axis] /\ p[axis] <= High[axis]
                THEN ps.bnd = Zero3
                ELSE /\ d # Zero3
                     /\ ps.bnd = clampLength(
                                     sub(multiplyScalar(normalize(d), config.maxSpeed), v),
                                     0, config.maxForce)

\* a pass on an agent below the low threshold of all three axes was pushed
\* up on each, and a pass on an agent above one high threshold was pushed down
C23_Witness ==
    /\ lastOp = "update"
    /\ Len(passes) = 2
    /\ config.maxForce > 0
    /\ LET p == passes[1].position[passes[1].boid]
       IN  /\ p.x < Low.x /\ p.y < Low.y /\ p.z < Low.z
           /\ passes[1].bnd.x > 0 /\ passes[1].bnd.y > 0 /\ passes[1].bnd.z > 0
    /\ LET q == passes[2].position[passes[2].boid]
       IN  /\ q.z > High.z /\ Low.x <= q.x /\ q.x <= High.x
           /\ passes[2].bnd.z < 0

-----------------------------------------------------------------------------
(* Claims about the handles of createPlant and createBuilding *)

\* the newConfig of the latest call names another L-system result string, or
\* another building object, than the one the handle was created with, or none
DiffersFromCreation ==
    LET key == lastCall.newConfig.key
    IN  \/ key = << >>
        \/ handleKind = "plant" /\ key[1] # closure.key
        \/ handleKind = "building" /\ key[1].ref # closure.key.ref

\* what newConfig holds under key k, or else what the creation gave for it
FromNewConfigOrCreation(k) ==
    IF lastCall.newConfig[k] = << >> THEN closure[k] ELSE lastCall.newConfig[k][1]

-----------------------------------------------------------------------------
(* Claims about PlayerView *)

Live == {i \in 1..Len(systems) : systems[i].disposed = 0}

\* C25: at every moment at most one flocking system is live, and it is the one
\* the reference holds; when a replacement is about to be created the
\* reference is null and every earlier system is disposed; no system is
\* disposed twice, every system is disposed once the component is unmounted,
\* and neither the frame loop nor the config effect calls a disposed system.
C25_FlockingLifecycle ==
    /\ Cardinality(Live) <= 1
    /\ \A i \in Live : flockingSystemRef = i
    /\ flockingSystemRef # 0 => flockingSystemRef \in Live
    /\ pvpc = "create" => (flockingSystemRef = 0 /\ Live = {})
    /\ \A i \in 1..Len(systems) :
          /\ systems[i].disposed <= 1
          /\ ~systems[i].usedAfterDispose
    /\ (~mounted /\ pvpc = "idle") => Live = {}

\* after two replacements and the unmount: three systems, each disposed once,
\* the first two stepped by the frame loop while they were live
C25_Witness ==
    /\ ~mounted /\ pvpc = "idle"
    /\ Len(systems) = 3
    /\ \A i \in 1..3 : systems[i].disposed = 1
    /\ systems[1].updated > 0
    /\ systems[2].updated > 0
    /\ frames = MaxFrames

-----------------------------------------------------------------------------
(* Claims about createFlowers *)

\* C26: whatever the random position, the noise test and the water test give,
\* the placement loop never makes more than 20 * count attempts and never
\* holds more than count flowers, and it ends: createFlowers returns.
C26_ScatteringTerminates ==
    /\ [](/\ attempts <= 20 * flowerCount
          /\ Len(flowers) <= flowerCount
          /\ Len(flowers) <= attempts)
    /\ <>(flowerPc = "returned")

\* the call returned with the whole budget spent and every candidate rejected
C26_Witness ==
    /\ flowerPc = "returned"
    /\ flowerCount = MaxCount
    /\ attempts = 20 * flowerCount
    /\ flowers = << >>

====
